---- MODULE Spec2Model ----
(***************************************************************************)
(* Model of bindings/python/sphinx/conf.py, the Sphinx configuration of    *)
(* the libgpiod python bindings.  The script is straight-line module-scope *)
(* code: three shell commands run through subprocess.run, an import of the *)
(* freshly built gpiod package, two os.environ lookups, the resolution of  *)
(* `version`, and a list of literal assignments.  One action models one    *)
(* statement; the external commands are children whose exit code and       *)
(* effect on the build tree are chosen nondeterministically.               *)
(***************************************************************************)
EXTENDS Integers, Sequences, FiniteSets, TLC

\* ---- bounds -------------------------------------------------------------
MaxRuns == 2          \* how many times the documentation build loads conf.py
MaxExitCode == 2      \* exit codes of the shell commands range over 0..MaxExitCode

ExitCodes == 0..MaxExitCode

\* ---- the world outside the script --------------------------------------
LibFiles == {"libgpiod.so", "libgpiod.so.3"}          \* matches of lib/.libs/libgpiod.so*
LanguageValues == {"", "en"}                           \* READTHEDOCS_LANGUAGE, when set
VersionValues == {"", "latest", "2.2", "v1.6"}         \* READTHEDOCS_VERSION, when set
ModuleVersions == {"", "2.2", "latest"}                \* gpiod.__version__
ModuleStates == {"missing", "malformed", "ok"}         \* gpiod package with its _ext
EnvKeys == {"READTHEDOCS_LANGUAGE", "READTHEDOCS_VERSION"}
Commands == {"native", "rm", "build_ext"}

Environments ==
    UNION { [K -> LanguageValues \cup VersionValues] : K \in SUBSET EnvKeys }

StrNames == {"project", "copyright", "author", "language", "version",
             "release", "html_theme"}
ListNames == {"extensions", "templates_path", "exclude_patterns",
              "html_static_path", "html_extra_path", "html_css_files"}
AllNames == StrNames \cup ListNames
LaterNames == {"extensions", "templates_path", "exclude_patterns", "html_theme",
               "html_static_path", "html_extra_path", "html_css_files"}

VARIABLES
    env,            \* os.environ: a function from the keys that are set
    moduleVersion,  \* the __version__ the gpiod package reports
    module,         \* state of the gpiod package next to the docs directory
    libs,           \* shared libraries present in lib/.libs
    unlinked,       \* some earlier rm removed shared libraries
    children,       \* shell commands started and not yet exited
    rc,             \* returncode of each command that has exited in this run
    pc,             \* the statement about to execute
    error,          \* the unhandled exception, "none" while there is none
    run,            \* number of the current load of conf.py
    sysPath,        \* sys.path
    imported,       \* gpiod is in sys.modules
    conf,           \* module-scope names bound to strings
    lists,          \* module-scope names bound to lists
    writes,         \* how many times each module-scope name was assigned
    envRead,        \* keys looked up in os.environ so far
    trace           \* statements begun in this run, in order

vars == <<env, moduleVersion, module, libs, unlinked, children, rc, pc, error, run,
          sysPath, imported, conf, lists, writes, envRead, trace>>

world == <<env, moduleVersion, module, libs, unlinked>>
names == <<conf, lists, writes>>

\* ---- helpers --------------------------------------------------------------
Range(s) == { s[i] : i \in 1..Len(s) }

Bind(f, n, v) == [k \in DOMAIN f \cup {n} |-> IF k = n THEN v ELSE f[k]]

\* subprocess.run is called without check=True
CheckFlagSet == TRUE
CheckFlag == FALSE

SubprocessRaises(returncode) == CheckFlag /\ returncode # 0

\* subprocess.run waits for the child before it returns
PopenOnly == FALSE
WaitsForChild == TRUE

\* os.environ[key] raises KeyError for a key that is not set
EnvironGet(e, key) == FALSE
EnvironRejectsEmpty(e, key) == key \notin DOMAIN e \/ e[key] = ""
EnvironLookupRaises(e, key) == key \notin DOMAIN e

\* `import gpiod` finds the package through the directory line 29 prepends
ImportAlwaysSucceeds(path, m) == TRUE
ImportSucceeds(path, m) == ".." \in Range(path) /\ m = "ok"

\* the test of line 40
L40Inverted(v) == v = "latest"
L40Cond(v) == v # "latest"

\* the name line 42 assigns
L42Release == "release"
L42Target == "version"

\* ---- initial state ---------------------------------------------------------
Fresh ==
    /\ children = {}
    /\ rc = [c \in {} |-> 0]
    /\ pc = "L15"
    /\ error = "none"
    /\ sysPath = <<"site-packages">>
    /\ imported = FALSE
    /\ conf = [n \in {} |-> ""]
    /\ lists = [n \in {} |-> <<>>]
    /\ writes = [n \in AllNames |-> 0]
    /\ envRead = {}
    /\ trace = <<>>

Init ==
    /\ env \in Environments
    /\ \A k \in DOMAIN env :
          env[k] \in (IF k = "READTHEDOCS_LANGUAGE" THEN LanguageValues ELSE VersionValues)
    /\ moduleVersion \in ModuleVersions
    /\ module \in ModuleStates
    /\ libs \in SUBSET LibFiles
    /\ unlinked = FALSE
    /\ run = 1
    /\ Fresh

\* ---- shell commands (lines 15, 17, 19) -----------------------------------
Begin(line) == pc = line /\ trace' = Append(trace, line)

Spawn(line, cmd) ==
    /\ Begin(line)
    /\ children' = children \cup {cmd}
    /\ pc' = line \o "w"
    /\ UNCHANGED <<world, rc, error, run, sysPath, imported, names, envRead>>

Exited(cmd, code) ==
    /\ cmd \in children
    /\ children' = children \ {cmd}
    /\ rc' = Bind(rc, cmd, code)
    /\ UNCHANGED <<env, moduleVersion, pc, error, run, sysPath, imported,
                   names, envRead, trace>>

Return(line, cmd, next) ==
    /\ pc = line \o "w"
    /\ WaitsForChild => cmd \notin children
    /\ IF cmd \in DOMAIN rc /\ SubprocessRaises(rc[cmd])
         THEN pc' = "aborted" /\ error' = "CalledProcessError"
         ELSE pc' = next /\ error' = error
    /\ UNCHANGED <<world, children, rc, run, sysPath, imported, names,
                   envRead, trace>>

\* line 15: cd ../../.. ; ./autogen.sh --enable-bindings-python; make
L15_run == Spawn("L15", "native")

NativeBuildExits ==
    \E code \in ExitCodes :
        /\ Exited("native", code)
        /\ IF code = 0 THEN libs' = LibFiles ELSE libs' \in {libs, LibFiles}
        /\ UNCHANGED <<module, unlinked>>

L15_return == Return("L15", "native", "L17")

\* line 17: rm ../../../lib/.libs/libgpiod.so*
L17_run == Spawn("L17", "rm")

RmExits ==
    \E code \in ExitCodes :
        /\ Exited("rm", code)
        /\ IF libs = {}
             THEN code # 0 /\ libs' = libs      \* the pattern matches nothing
             ELSE \/ code = 0 /\ libs' = {}
                  \/ code # 0 /\ libs' = libs   \* rm could not unlink
        /\ unlinked' = (unlinked \/ libs' # libs)
        /\ UNCHANGED module

L17_return == Return("L17", "rm", "L19")

\* line 19: cd .. ; python build_ext.py gpiod
L19_run == Spawn("L19", "build_ext")

BuildExtExits ==
    \E code \in ExitCodes :
        /\ Exited("build_ext", code)
        /\ module' = IF code = 0 THEN "ok" ELSE module
        /\ UNCHANGED <<libs, unlinked>>

L19_return == Return("L19", "build_ext", "L29")

\* ---- lines 27-29: sys.path.insert(0, os.path.abspath('..')) ----------------
L29_path ==
    /\ Begin("L29")
    /\ sysPath' = <<"..">> \o sysPath
    /\ pc' = "L33"
    /\ UNCHANGED <<world, children, rc, error, run, imported, names, envRead>>

\* ---- line 33: import gpiod -----------------------------------------------
L33_import ==
    /\ Begin("L33")
    /\ IF ImportSucceeds(sysPath, module)
         THEN imported' = TRUE /\ pc' = "L35" /\ error' = error
         ELSE imported' = imported /\ pc' = "aborted" /\ error' = "ImportError"
    /\ UNCHANGED <<world, children, rc, run, sysPath, names, envRead>>

\* ---- assignments ---------------------------------------------------------
AssignStr(line, next, name, value) ==
    /\ Begin(line)
    /\ conf' = Bind(conf, name, value)
    /\ writes' = [writes EXCEPT ![name] = @ + 1]
    /\ pc' = next
    /\ UNCHANGED <<world, children, rc, error, run, sysPath, imported, lists, envRead>>

AssignList(line, next, name, value) ==
    /\ Begin(line)
    /\ lists' = Bind(lists, name, value)
    /\ writes' = [writes EXCEPT ![name] = @ + 1]
    /\ pc' = next
    /\ UNCHANGED <<world, children, rc, error, run, sysPath, imported, conf, envRead>>

AssignEnv(line, next, name, key) ==
    /\ Begin(line)
    /\ envRead' = envRead \cup {key}
    /\ IF EnvironLookupRaises(env, key)
         THEN /\ pc' = "aborted" /\ error' = "KeyError"
              /\ UNCHANGED names
         ELSE /\ pc' = next /\ error' = error
              /\ conf' = Bind(conf, name, IF key \in DOMAIN env THEN env[key] ELSE "")
              /\ writes' = [writes EXCEPT ![name] = @ + 1]
              /\ UNCHANGED lists
    /\ UNCHANGED <<world, children, rc, run, sysPath, imported>>

L35_project == AssignStr("L35", "L36", "project", "libgpiod")
L36_copyright == AssignStr("L36", "L37", "copyright", "2022, Bartosz Golaszewski")
L37_author == AssignStr("L37", "L38", "author", "Bartosz Golaszewski")
L38_language == AssignEnv("L38", "L39", "language", "READTHEDOCS_LANGUAGE")
L39_version == AssignEnv("L39", "L40", "version", "READTHEDOCS_VERSION")

\* line 40: if version != 'latest':
L40_if ==
    /\ Begin("L40")
    /\ pc' = IF L40Cond(conf["version"]) THEN "L41" ELSE "L43"
    /\ UNCHANGED <<world, children, rc, error, run, sysPath, imported, names, envRead>>

\* line 41: import gpiod  (already in sys.modules after line 33)
L41_import ==
    /\ Begin("L41")
    /\ IF imported \/ ImportSucceeds(sysPath, module)
         THEN imported' = TRUE /\ pc' = "L42" /\ error' = error
         ELSE imported' = imported /\ pc' = "aborted" /\ error' = "ImportError"
    /\ UNCHANGED <<world, children, rc, run, sysPath, names, envRead>>

\* line 42: version = gpiod.__version__
L42_version == AssignStr("L42", "L43", L42Target, moduleVersion)

\* line 43: release = version
L43_release ==
    /\ "version" \in DOMAIN conf
    /\ AssignStr("L43", "L50", "release", conf["version"])

L50_extensions == AssignList("L50", "L53", "extensions", <<"sphinx.ext.autodoc">>)
L53_templates_path == AssignList("L53", "L58", "templates_path", <<"_templates">>)
L58_exclude_patterns == AssignList("L58", "L65", "exclude_patterns", <<>>)
L65_html_theme == AssignStr("L65", "L70", "html_theme", "sphinx_rtd_theme")
L70_html_static_path == AssignList("L70", "L72", "html_static_path", <<"_static">>)
L72_html_extra_path == AssignList("L72", "L74", "html_extra_path", <<>>)
L74_html_css_files == AssignList("L74", "done", "html_css_files", <<"css/custom.css">>)

\* ---- a later documentation build loads conf.py again ---------------------
Reload ==
    /\ pc \in {"done", "aborted"}
    /\ children = {}
    /\ run < MaxRuns
    /\ run' = run + 1
    /\ children' = {}
    /\ rc' = [c \in {} |-> 0]
    /\ pc' = "L15"
    /\ error' = "none"
    /\ sysPath' = <<"site-packages">>
    /\ imported' = FALSE
    /\ conf' = [n \in {} |-> ""]
    /\ lists' = [n \in {} |-> <<>>]
    /\ writes' = [n \in AllNames |-> 0]
    /\ envRead' = {}
    /\ trace' = <<>>
    /\ UNCHANGED world

Next ==
    \/ L15_run \/ NativeBuildExits \/ L15_return
    \/ L17_run \/ RmExits \/ L17_return
    \/ L19_run \/ BuildExtExits \/ L19_return
    \/ L29_path
    \/ L33_import
    \/ L35_project \/ L36_copyright \/ L37_author
    \/ L38_language \/ L39_version
    \/ L40_if \/ L41_import \/ L42_version \/ L43_release
    \/ L50_extensions \/ L53_templates_path \/ L58_exclude_patterns
    \/ L65_html_theme \/ L70_html_static_path \/ L72_html_extra_path
    \/ L74_html_css_files
    \/ Reload

Spec == Init /\ [][Next]_vars

\* ==== properties =========================================================
VersionKey == "READTHEDOCS_VERSION"
LanguageKey == "READTHEDOCS_LANGUAGE"
Completed == pc = "done"
Aborted == pc = "aborted"
VersionIsLatest == VersionKey \in DOMAIN env /\ env[VersionKey] = "latest"
VersionIsOther == VersionKey \in DOMAIN env /\ env[VersionKey] # "latest"
Unassigned(S) == S \cap (DOMAIN conf \cup DOMAIN lists) = {}
LastBegun == trace[Len(trace)]

\* C1 (as stated): a run that completes with READTHEDOCS_VERSION = 'latest'
\* ends with version equal to gpiod.__version__.
C1_VersionIsModuleVersionOnLatest ==
    (Completed /\ VersionIsLatest) => conf["version"] = moduleVersion

\* C1 (amended): a run that completes with READTHEDOCS_VERSION = 'latest'
\* ends with version equal to the environment value 'latest'; line 42 is
\* skipped, so version was assigned once and gpiod.__version__ is not used.
C1_VersionIsSentinelOnLatest ==
    (Completed /\ VersionIsLatest) =>
        /\ conf["version"] = "latest"
        /\ writes["version"] = 1
        /\ "L42" \notin Range(trace)

C1_Witness == Completed /\ VersionIsLatest /\ moduleVersion # "latest"

\* C2 (as stated): a run that completes with READTHEDOCS_VERSION other than
\* 'latest' ends with version and release equal to the environment value, and
\* gpiod was never imported.
C2_EnvValueVerbatimOnOther ==
    (Completed /\ VersionIsOther) =>
        /\ conf["version"] = env[VersionKey]
        /\ conf["release"] = env[VersionKey]
        /\ ~imported

\* C2 (amended): a run that completes with READTHEDOCS_VERSION other than
\* 'latest' ends with version and release equal to gpiod.__version__; gpiod
\* was imported and line 42 overwrote the environment value.
C2_ModuleVersionOnOther ==
    (Completed /\ VersionIsOther) =>
        /\ conf["version"] = moduleVersion
        /\ conf["release"] = moduleVersion
        /\ imported
        /\ "L42" \in Range(trace)

C2_Witness == Completed /\ VersionIsOther /\ env[VersionKey] # moduleVersion

\* C3: at completion version is the environment value when that value is
\* 'latest' and gpiod.__version__ in every other case, and release = version.
C3_VersionResolution ==
    Completed =>
        /\ conf["version"] = IF env[VersionKey] = "latest"
                               THEN env[VersionKey] ELSE moduleVersion
        /\ conf["release"] = conf["version"]

C3_Witness ==
    /\ Completed /\ run = 2
    /\ env[VersionKey] = "v1.6" /\ moduleVersion = "2.2"
    /\ conf["release"] = "2.2"

\* C4: with both variables set (the empty string included), both builds
\* exiting 0 and a non-empty gpiod.__version__, the script never raises,
\* can always take its next statement, and ends with a non-empty version.
BuildSucceeded ==
    /\ {"native", "build_ext"} \subseteq DOMAIN rc
    /\ rc["native"] = 0 /\ rc["build_ext"] = 0

C4_CompletesWithVersion ==
    (EnvKeys \subseteq DOMAIN env /\ BuildSucceeded /\ moduleVersion # "") =>
        /\ error = "none"
        /\ ~Aborted
        /\ Completed => conf["version"] # ""
        /\ ~Completed => ENABLED Next

C4_Witness ==
    /\ Completed /\ BuildSucceeded
    /\ env[VersionKey] = "" /\ env[LanguageKey] = ""
    /\ conf["version"] # ""

\* C5 (as stated): with READTHEDOCS_LANGUAGE or READTHEDOCS_VERSION absent the
\* script never completes, release and the later configuration values are
\* never assigned, and the abort is the lookup failure.
SomeKeyAbsent == ~(EnvKeys \subseteq DOMAIN env)
FirstAbsentLine == IF LanguageKey \notin DOMAIN env THEN "L38" ELSE "L39"

C5_AbortsWithLookupFailure ==
    SomeKeyAbsent =>
        /\ ~Completed
        /\ Unassigned({"release"} \cup LaterNames)
        /\ Aborted => error = "KeyError"

\* C5 (amended): with either variable absent the script never completes and
\* never assigns release or any later configuration value; once gpiod has
\* been imported the abort is the lookup failure, raised at the first absent
\* lookup (language before version); a run whose import fails aborts earlier
\* with the import failure instead.
C5_AbortsBeforeRelease ==
    SomeKeyAbsent =>
        /\ ~Completed
        /\ Unassigned({"release"} \cup LaterNames)
        /\ Aborted =>
              IF imported
                THEN error = "KeyError" /\ LastBegun = FirstAbsentLine
                ELSE error = "ImportError" /\ LastBegun = "L33"
        /\ (imported /\ ~Aborted) => ENABLED Next

C5_Witness ==
    /\ Aborted /\ error = "KeyError"
    /\ DOMAIN env = {LanguageKey}
    /\ "language" \in DOMAIN conf
    /\ "version" \notin DOMAIN conf

\* C6: the deletion step never raises: whatever rm's exit code, and also when
\* nothing matches or an earlier run already deleted the libraries, the
\* statement after line 17 is line 19; deleting again leaves nothing behind.
C6_DeletionNeverRaises ==
    /\ [][pc = "L17w" => (pc' \in {"L17w", "L19"} /\ error' = "none")]_vars
    /\ [][("rm" \in children /\ libs = {}) => libs' = {}]_vars

C6_Witness ==
    /\ run = 2 /\ unlinked /\ libs = {}
    /\ "rm" \in DOMAIN rc /\ rc["rm"] # 0
    /\ pc = "L19"

\* C7: for each of the three shell commands and every exit code, the
\* statement after the command is the next line and no exception is set.
ShellSteps == { <<"L15", "native", "L17">>, <<"L17", "rm", "L19">>,
                <<"L19", "build_ext", "L29">> }

C8_ImportFailureIsFatal ==
    ("L33" \in Range(trace) /\ pc # "L33" /\ module # "ok") =>
        /\ Aborted /\ error = "ImportError"
        /\ envRead = {}
        /\ Unassigned(AllNames)
        /\ ~imported

C8_Witness == Aborted /\ error = "ImportError" /\ VersionIsLatest

\* C9: the statements run in program order, and a shell command has exited
\* before the statement after it begins.
ProgramOrder == <<"L15", "L17", "L19", "L33", "L38", "L39">>
IsKeyStep(l) == l \in Range(ProgramOrder)
KeyTrace == SelectSeq(trace, IsKeyStep)
WaitingFor == IF pc = "L15w" THEN {"native"}
              ELSE IF pc = "L17w" THEN {"rm"}
              ELSE IF pc = "L19w" THEN {"build_ext"} ELSE {}

C9_SequentialOrder ==
    /\ Len(KeyTrace) <= Len(ProgramOrder)
    /\ \A i \in 1..Len(KeyTrace) : KeyTrace[i] = ProgramOrder[i]
    /\ children \subseteq WaitingFor
    /\ \A i \in 1..Len(KeyTrace) :
          /\ (i > 1 => "native" \in DOMAIN rc)
          /\ (i > 2 => "rm" \in DOMAIN rc)
          /\ (i > 3 => "build_ext" \in DOMAIN rc)

C9_Witness == Aborted /\ error = "KeyError" /\ KeyTrace = ProgramOrder

\* C10 (as stated): within a run no module-scope name, once assigned, is
\* assigned a different value.
C10_NeverReassigned ==
    [][run' = run =>
          /\ \A n \in DOMAIN conf : n \in DOMAIN conf' /\ conf'[n] = conf[n]
          /\ \A n \in DOMAIN lists : n \in DOMAIN lists' /\ lists'[n] = lists[n]]_vars

\* C10 (amended): within a run every module-scope name other than version is
\* assigned at most once and keeps its value; version is assigned at line 39
\* and assigned again, at line 42, exactly when READTHEDOCS_VERSION is not
\* 'latest'.
C10_OnlyVersionReassigned ==
    /\ [](\A n \in AllNames \ {"version"} : writes[n] <= 1)
    /\ [](writes["version"] <= 2)
    /\ []((writes["version"] = 2) <=> (VersionIsOther /\ "L42" \in Range(trace) /\ pc # "L42"))
    /\ [][run' = run =>
            /\ \A n \in DOMAIN conf \ {"version"} :
                  n \in DOMAIN conf' /\ conf'[n] = conf[n]
            /\ \A n \in DOMAIN lists : n \in DOMAIN lists' /\ lists'[n] = lists[n]]_vars

C10_Witness ==
    /\ Completed /\ writes["version"] = 2
    /\ conf["version"] # env[VersionKey]
    /\ \A n \in AllNames \ {"version"} : writes[n] = 1

====
